---- MODULE Spec2Model ----
(***************************************************************************)
(* vscode-perf: the trial orchestrator of src/src/perf.ts (the current     *)
(* version of the file, lines 110-519) with its two launch strategies.     *)
(*                                                                         *)
(* One action of the model is one turn of the Node.js event loop: the      *)
(* callback of the event together with every promise continuation it makes *)
(* runnable, up to the next await that waits for an outside event.         *)
(***************************************************************************)
EXTENDS Integers, Sequences, FiniteSets, TLC

VARIABLES
    runtime,            \* options.runtime: "Desktop" or "Web"
    runs,               \* const runs (perf.ts:173)
    markers,            \* const markers (perf.ts:176)
    profAppendTimers,   \* options.profAppendTimers is set
    w,                  \* the mutable state of the process and its surroundings
    heap,               \* one heap tracing: startHeapTracing and its stop()
    cli,                \* the options run() is called with (index.ts:32), if it is
    options,            \* build and runs of the Options given to launch()
    args                \* the arguments of the latest logMarker call made alone

vars == <<runtime, runs, markers, profAppendTimers, w, heap, cli, options, args>>

\* ------------------------------------------------------------------ bounds
MaxRuns == 2        \* largest configured number of runs
MaxConsole == 2     \* [prof-timers] console lines the pages print in one session
MaxSamples == 4     \* logMarker calls in the specification of logMarker alone
MaxEvents == 2      \* trace events collected in the specification of the heap tracing

Trials == 1..MaxRuns

\* export const PERFORMANCE_RUNS (constants.ts:19)
PERFORMANCE_RUNS == 10

\* ------------------------------------------------------------------- texts
\* A text is a sequence of one-character strings.
TAB == "\t"
ellapsed == <<"e", "l", "l", "a", "p", "s", "e", "d">>
Whitespace == {" ", TAB}
Digits == {"0", "1", "2", "3", "4", "5", "6", "7", "8", "9"}

DigitVal(c) ==
    CASE c = "0" -> 0 [] c = "1" -> 1 [] c = "2" -> 2 [] c = "3" -> 3
      [] c = "4" -> 4 [] c = "5" -> 5 [] c = "6" -> 6 [] c = "7" -> 7
      [] c = "8" -> 8 [] c = "9" -> 9

\* parseInt of a run of decimal digits (perf.ts:493)
RECURSIVE parseInt(_)
parseInt(ds) ==
    IF ds = <<>> THEN 0
    ELSE 10 * parseInt(SubSeq(ds, 1, Len(ds) - 1)) + DigitVal(ds[Len(ds)])

\* what the instrumented application can write as its timing line
AppOutputs ==
    { ellapsed \o <<TAB, "7">>,
      ellapsed \o <<TAB, "1", "2">>,
      <<"x">> }

\* what the application can write as the last line of the append-timers file
TimerOutputs == { <<"9">> }

\* what the hosted page can print after "[prof-timers] "
PagePayloads == { <<"1", "2">> }

\* ------------------------------------------------------- the marker parser
\* the characters escapeRegExpCharacters puts a backslash before
RegExpCharacters ==
    {"\\", "{", "}", "*", "+", "?", "|", "^", "$", ".", "[", "]", "(", ")"}

\* an escaping that leaves the value as it is
escapeNothing(value) == value

\* value.replace(/[\\\{\}\*\+\?\|\^\$\.\[\]\(\)]/g, '\\$&')
escapeRegExpCharacters(value) ==
    LET RECURSIVE escape(_)
        escape(v) ==
            IF v = <<>> THEN <<>>
            ELSE (IF Head(v) \in RegExpCharacters THEN <<"\\", Head(v)>> ELSE <<Head(v)>>)
                 \o escape(Tail(v))
    IN  escape(value)

\* what new RegExp makes of the marker part of its source: a backslash and a
\* character stand for that character, a dot for any character, and every
\* other character of the markers of the model for itself
RECURSIVE atoms(_)
atoms(source) ==
    IF source = <<>> THEN <<>>
    ELSE IF Head(source) = "\\" /\ Len(source) >= 2
    THEN <<[any |-> FALSE, c |-> source[2]]>> \o atoms(Tail(Tail(source)))
    ELSE <<[any |-> Head(source) = ".", c |-> Head(source)]>> \o atoms(Tail(source))

OccursAt(content, pattern, p) ==
    /\ p + Len(pattern) - 1 <= Len(content)
    /\ \A k \in DOMAIN pattern :
          pattern[k].any \/ content[p + k - 1] = pattern[k].c

\* the last index of the run of characters of S that starts at from
\* (from - 1 when the run is empty)
RECURSIVE RunEnd(_, _, _)
RunEnd(content, from, S) ==
    IF from <= Len(content) /\ content[from] \in S
    THEN RunEnd(content, from + 1, S)
    ELSE from - 1

\* the regular expression <marker>\s+(\d+) tried at position p
MatchAt(content, pattern, p) ==
    LET q == p + Len(pattern)
        r == RunEnd(content, q, Whitespace)
        e == RunEnd(content, r + 1, Digits)
    IN  IF OccursAt(content, pattern, p) /\ r >= q /\ e >= r + 1
        THEN SubSeq(content, r + 1, e)
        ELSE <<>>

\* regex.exec(content): capture group 1 of the leftmost match, <<>> for null
regexExec(content, marker) ==
    LET pattern == atoms(escapeRegExpCharacters(marker))
        hits == { p \in 1..Len(content) : MatchAt(content, pattern, p) # <<>> }
    IN  IF hits = {} THEN <<>>
        ELSE MatchAt(content, pattern, CHOOSE p \in hits : \A o \in hits : p <= o)

\* Array.prototype.sort((a, b) => a - b)
RECURSIVE Insert(_, _)
Insert(sorted, x) ==
    IF sorted = <<>> THEN <<x>>
    ELSE IF x < Head(sorted) THEN <<x>> \o sorted
    ELSE <<Head(sorted)>> \o Insert(Tail(sorted), x)

RECURSIVE sort(_)
sort(xs) == IF xs = <<>> THEN <<>> ELSE Insert(sort(Tail(xs)), Head(xs))

IsSorted(xs) == \A k \in 1..(Len(xs) - 1) : xs[k] <= xs[k + 1]

\* ------------------------------------------------------------------- files
\* A file is [exists, lines]: lines holds its newline-terminated lines, each
\* tagged (by) with the trial whose target wrote it; by = 0 is no trial.
NoFile == [exists |-> FALSE, lines |-> <<>>]
EmptyLine == [by |-> 0, text |-> <<>>]
Undefined == [defined |-> FALSE, by |-> 0, text |-> <<>>]
Str(by, text) == [defined |-> TRUE, by |-> by, text |-> text]

\* contents.split(/\r?\n/): the text after the last newline is one more,
\* empty, element
split(file) == file.lines \o <<EmptyLine>>

RECURSIVE popLastLine(_)
popLastLine(lines) ==
    IF lines = <<>> THEN EmptyLine
    ELSE IF lines[Len(lines)].text # <<>> THEN lines[Len(lines)]
    ELSE popLastLine(SubSeq(lines, 1, Len(lines) - 1))

\* a reader that pops a single line, empty or not
readLastLineSyncSinglePop(file) ==
    LET lines == split(file)
    IN  Str(lines[Len(lines)].by, lines[Len(lines)].text)

readLastLineSync(file) ==
    LET lastLine == popLastLine(split(file))
    IN  Str(lastLine.by, lastLine.text)

\* if (content): undefined and the empty string are falsy
Truthy(content) == content.defined /\ content.text # <<>>

\* ------------------------------------------------------------ the markers
ab == <<"a", "-", "b">>
aDotB == <<"a", ".", "b">>
MarkerNames == {ellapsed, ab, aDotB}

\* options.durationMarkers as the caller can give it (<<>>: not given)
DurationMarkersOptions == { <<>>, <<ab, ellapsed>> }

\* ------------------------------------------------------- printed figures
\* A figure of a printed line is a JavaScript number, kept as a fraction
\* num/den with den 1 or 2, or undefined (printed as "undefinedms").
UndefinedFigure == [defined |-> FALSE, num |-> 0, den |-> 1]
Num(v) == [defined |-> TRUE, num |-> v, den |-> 1]

\* (a + b) / 2
Half(n) == IF n % 2 = 0 THEN Num(n \div 2) ELSE [defined |-> TRUE, num |-> n, den |-> 2]

\* markerDurations[index] for a 0-based index: undefined outside the array
At(markerDurations, index) ==
    IF index >= 0 /\ index < Len(markerDurations)
    THEN Num(markerDurations[index + 1])
    ELSE UndefinedFigure

\* a median without the averaging of an even count: the element at
\* Math.floor(length / 2)
medianUpper(markerDurations) ==
    At(markerDurations, Len(markerDurations) \div 2)

\* const middleIndex, const median of logMarker (perf.ts:499-500)
median(markerDurations) ==
    LET middleIndex == Len(markerDurations) \div 2
    IN  IF Len(markerDurations) % 2 = 0
        THEN Half(markerDurations[middleIndex] + markerDurations[middleIndex + 1])
        ELSE At(markerDurations, middleIndex)

NoLine == [printed |-> FALSE, current |-> UndefinedFigure, fastest |-> UndefinedFigure,
           slowest |-> UndefinedFigure, median |-> UndefinedFigure]

\* the line logMarker prints (perf.ts:502)
perTrialLine(duration, markerDurations) ==
    [printed |-> TRUE,
     current |-> Num(duration),
     fastest |-> At(markerDurations, 0),
     slowest |-> At(markerDurations, Len(markerDurations) - 1),
     median |-> median(markerDurations)]

\* a summary that leaves out the markers without samples
summaryLinesSkipEmpty(ds, ms) ==
    LET RECURSIVE lines(_)
        lines(rest) ==
            IF rest = <<>> THEN <<>>
            ELSE IF ds[Head(rest)] = <<>> THEN lines(Tail(rest))
            ELSE <<[marker |-> Head(rest),
                    fastest |-> At(ds[Head(rest)], 0),
                    slowest |-> At(ds[Head(rest)], Len(ds[Head(rest)]) - 1),
                    median |-> At(ds[Head(rest)], Len(ds[Head(rest)]) \div 2)]>>
                 \o lines(Tail(rest))
    IN  lines(ms)

\* the lines printed after "Summary:" (perf.ts:231-234); durations.get(marker)
\* ?? [] is the empty array for a marker without samples
summaryLines(ds, ms) ==
    [k \in DOMAIN ms |->
        LET markerDurations == ds[ms[k]]
        IN  [marker |-> ms[k],
             fastest |-> At(markerDurations, 0),
             slowest |-> At(markerDurations, Len(markerDurations) - 1),
             median |-> At(markerDurations, Len(markerDurations) \div 2)]]

\* ------------------------------------------------------ builds and options
stable == <<"s", "t", "a", "b", "l", "e">>
insider == <<"i", "n", "s", "i", "d", "e", "r">>
exploration == <<"e", "x", "p", "l", "o", "r", "a", "t", "i", "o", "n">>
vscodeDev == <<"h", "t", "t", "p", "s", ":", "/", "/", "v", "s", "c", "o", "d", "e", ".", "d", "e", "v">>
insidersVscodeDev == <<"h", "t", "t", "p", "s", ":", "/", "/", "i", "n", "s", "i", "d", "e", "r", "s", ".", "v", "s", "c", "o", "d", "e", ".", "d", "e", "v">>
versionQuery == <<"?", "v", "s", "c", "o", "d", "e", "-", "v", "e", "r", "s", "i", "o", "n", "=">>
latest == <<"l", "a", "t", "e", "s", "t">>
buildUrl == <<"h", "t", "t", "p", "s", ":", "/", "/", "m", "y", ".", "d", "e", "v", "/", "b", "u", "i", "l", "d">>
codePath == <<"/", "c", "o", "d", "e">>
installedPath == <<"/", "b", "u", "i", "l", "d", "s", "/", "c", "o", "d", "e">>
commitHash == <<"a", "b", "c">>

\* the scheme characters of a URL
Letters ==
    {"a", "b", "c", "d", "e", "f", "g", "h", "i", "j", "k", "l", "m", "n", "o",
     "p", "q", "r", "s", "t", "u", "v", "w", "x", "y", "z"}

\* new URL(text) does not throw: the text starts with a scheme and a colon
\* and something follows
parsesAsURL(text) ==
    \E k \in 2..(Len(text) - 1) :
        /\ text[k] = ":"
        /\ \A j \in 1..(k - 1) : text[j] \in Letters

\* an optional value: undefined, or a value
NotGiven == [defined |-> FALSE, value |-> <<>>]
\* runs?: number left out of the options
NoRuns == [defined |-> FALSE, value |-> 0]
Given(v) == [defined |-> TRUE, value |-> v]

\* the options of run() (index.ts:13-30), as far as getBuild reads them
NoCli == [given |-> FALSE, build |-> <<>>, commit |-> NotGiven]
Cli(build, commit) == [given |-> TRUE, build |-> build, commit |-> commit]

\* getBuild (index.ts:83-100) when installBuild, if called, resolves
getBuild(c, rt) ==
    IF rt = "Web"
    THEN LET url == IF c.build = stable THEN vscodeDev ELSE insidersVscodeDev
         IN  IF c.commit.defined /\ c.commit.value # latest
             THEN url \o versionQuery \o c.commit.value
             ELSE url
    ELSE IF c.build \in {stable, insider, exploration}
    THEN installedPath
    ELSE c.build

\* const runs = options.runs ?? PERFORMANCE_RUNS (perf.ts:173)
resolveRuns(o) == IF o.runs.defined THEN o.runs.value ELSE PERFORMANCE_RUNS

NoArgs == [content |-> <<>>, marker |-> <<>>]

\* ----------------------------------------------------- the state at start
WInit(T) == [
    pc |-> "start",                         \* where launch() stands
    i |-> 0,                                \* the trial being run, 1-based
    timedOut |-> [t \in T |-> FALSE],  \* let timedOut of trial t
    aborted |-> [t \in T |-> FALSE],   \* abortController.signal.aborted
    sigintListeners |-> {},                 \* trials whose abortListener is on
    handle |-> [t \in T |-> "none"],   \* the timeout timer of trial t
    promise |-> [t \in T |-> "none"],  \* the strategy promise of trial t
    dropped |-> [t \in T |-> Undefined], \* content launch() never parsed
    outcome |-> [t \in T |-> "none"],  \* the branch launch() took
    child |-> [t \in T |-> "none"],    \* the spawned process of trial t
    perfFile |-> NoFile,
    timersFile |-> NoFile,
    durations |-> [m \in MarkerNames |-> <<>>],
    samples |-> {},                         \* which trial recorded whose value
    parsed |-> [t \in T |-> 0],        \* logMarker calls made for trial t
    nomatch |-> [t \in T |-> {}],      \* markers logMarker found no match for
    lastLine |-> [m \in MarkerNames |-> NoLine], \* the last line logMarker printed
    summary |-> <<>>,                       \* the lines printed after "Summary:"
    warnings |-> [t \in T |-> {}],     \* the red [perf] lines of trial t
    stopFailed |-> [t \in T |-> FALSE], \* heapTracing.stop() rejected in the race
    interruptedIn |-> {},                   \* trials that were running at a SIGINT
    stage |-> [t \in T |-> "none"],    \* the await launchWeb stands at
    browser |-> [t \in T |-> "none"],
    closeListener |-> [t \in T |-> FALSE],
    handlers |-> [t \in T |-> <<>>],   \* console handlers in flight
    consoleLines |-> 0,                     \* [prof-timers] lines printed so far
    started |-> <<>>,                       \* the trials started, in order
    codeArgs |-> [t \in T |-> <<>>],        \* the --prof-duration-markers values
    errors |-> 0,                           \* [error] lines run() printed
    exit |-> "none",                        \* the process.exit call that was made
    request |-> [t \in T |-> <<>>],         \* the profDurationMarkers sent to the page
    output |-> [t \in T |-> Undefined]      \* what the strategy promise settled with
]

\* the state at start of a session of up to MaxRuns trials
W0 == WInit(Trials)

Alive(w0) == w0.pc \in {"race", "done"}

\* ------------------------------------------------------------ logMarker
logMarkerNoSort(w0, content, marker) ==
    LET matches == regexExec(content.text, marker)
        duration == parseInt(matches)
    IN  IF matches = <<>>
        THEN [w0 EXCEPT !.parsed[w0.i] = @ + 1, !.nomatch[w0.i] = @ \cup {marker}]
        ELSE [w0 EXCEPT
                !.parsed[w0.i] = @ + 1,
                !.durations[marker] = Append(@, duration),
                !.lastLine[marker] =
                    perTrialLine(duration, Append(w0.durations[marker], duration)),
                !.samples = @ \cup {[trial |-> w0.i, by |-> content.by]}]

logMarker(w0, content, marker) ==
    LET matches == regexExec(content.text, marker)
        duration == parseInt(matches)
        markerDurations == sort(Append(w0.durations[marker], duration))
    IN  IF matches = <<>>
        THEN [w0 EXCEPT !.parsed[w0.i] = @ + 1, !.nomatch[w0.i] = @ \cup {marker}]
        ELSE [w0 EXCEPT
                !.parsed[w0.i] = @ + 1,
                !.durations[marker] = markerDurations,
                !.lastLine[marker] = perTrialLine(duration, markerDurations),
                !.samples = @ \cup {[trial |-> w0.i, by |-> content.by]}]

\* a loop over the markers that ends at the first marker without a match
RECURSIVE logMarkersUntilMiss(_, _, _)
logMarkersUntilMiss(w0, content, ms) ==
    IF ms = <<>> THEN w0
    ELSE IF regexExec(content.text, Head(ms)) = <<>>
    THEN logMarker(w0, content, Head(ms))
    ELSE logMarkersUntilMiss(logMarker(w0, content, Head(ms)), content, Tail(ms))

\* a loop that parses each marker name once, however often it is listed
RECURSIVE logMarkersOnce(_, _, _)
logMarkersOnce(w0, content, ms) ==
    IF ms = <<>> THEN w0
    ELSE IF \E k \in DOMAIN Tail(ms) : Tail(ms)[k] = Head(ms)
    THEN logMarkersOnce(w0, content, Tail(ms))
    ELSE logMarkersOnce(logMarker(w0, content, Head(ms)), content, Tail(ms))

\* a loop body run for the first marker alone
logMarkersFirstOnly(w0, content, ms) ==
    IF ms = <<>> THEN w0 ELSE logMarker(w0, content, Head(ms))

\* for (const marker of markers) logMarker(content, marker, durations)
RECURSIVE logMarkers(_, _, _)
logMarkers(w0, content, ms) ==
    IF ms = <<>> THEN w0
    ELSE logMarkers(logMarker(w0, content, Head(ms)), content, Tail(ms))

\* ---------------------------------------------------------- cancellation
\* signal.addEventListener('abort', () => childProcess?.kill())
onAbortDesktopNoKill(w0, t) == w0

onAbortDesktop(w0, t) ==
    [w0 EXCEPT !.child[t] = IF @ = "running" THEN "signalled" ELSE @]

\* signal.addEventListener('abort', () => browser.close()), once registered
onAbortWeb(w0, t) ==
    IF w0.closeListener[t] /\ w0.browser[t] = "open"
    THEN [w0 EXCEPT !.browser[t] = "closed"]
    ELSE w0

\* abortController.abort(): the abort event is dispatched once
abort(w0, t) ==
    IF w0.aborted[t] THEN w0
    ELSE LET a == [w0 EXCEPT !.aborted[t] = TRUE]
         IN  IF runtime = "Desktop" THEN onAbortDesktop(a, t) ELSE onAbortWeb(a, t)

abortListener(w0, t) ==
    [abort(w0, t) EXCEPT !.sigintListeners = @ \ {t}]

\* process.emit('SIGINT'): every registered listener, in registration order
RECURSIVE emitSigint(_, _)
emitSigint(w0, ts) ==
    IF ts = {} THEN w0
    ELSE LET t == CHOOSE x \in ts : \A y \in ts : x <= y
         IN  emitSigint(abortListener(w0, t), ts \ {t})

\* ------------------------------------ what launchWeb sends and appends
\* launchWeb is handed markers[0] alone (perf.ts:196)
durationMarkerLast(ms) == ms[Len(ms)]

durationMarker(ms) == ms[1]

timeOriginToWorkbench ==
    <<"c", "o", "d", "e", "/", "t", "i", "m", "e", "O", "r", "i", "g", "i", "n", ",", "c", "o", "d", "e", "/", "d", "i", "d", "S", "t", "a", "r", "t", "W", "o", "r", "k", "b", "e", "n", "c", "h">>

\* durationMarker.split('-').join(',')
RECURSIVE splitJoin(_)
splitJoin(text) ==
    IF text = <<>> THEN <<>>
    ELSE <<IF Head(text) = "-" THEN "," ELSE Head(text)>> \o splitJoin(Tail(text))

\* the profDurationMarkers entry of the payload the page is opened with
profDurationMarkers(marker) ==
    IF marker = ellapsed THEN timeOriginToWorkbench ELSE splitJoin(marker)

MB == 1024 * 1024

\* Math.round(x / MB): the nearest integer, a half goes up
roundMB(x) == (2 * x + MB) \div (2 * MB)

\* `${n}` for an integer
DigitChars == <<"0", "1", "2", "3", "4", "5", "6", "7", "8", "9">>
RECURSIVE digitsOf(_)
digitsOf(n) ==
    IF n < 10 THEN <<DigitChars[n + 1]>>
    ELSE digitsOf(n \div 10) \o <<DigitChars[(n % 10) + 1]>>
toString(n) == IF n < 0 THEN <<"-">> \o digitsOf(0 - n) ELSE digitsOf(n)

heapLabel == <<"H", "e", "a", "p", ":", " ">>
usedLabel == <<"M", "B", " ", "(", "u", "s", "e", "d", ")", " ">>
garbageLabel == <<"M", "B", " ", "(", "g", "a", "r", "b", "a", "g", "e", ")", " ">>
majorLabel == <<" ", "(", "M", "a", "j", "o", "r", "G", "C", ")", " ">>
minorLabel == <<" ", "(", "M", "i", "n", "o", "r", "G", "C", ")", " ">>
durationLabel == <<"m", "s", " ", "(", "G", "C", " ", "d", "u", "r", "a", "t", "i", "o", "n", ")">>

\* gcStatisticsToString
gcStatisticsToString(data) ==
    heapLabel \o toString(roundMB(data.used)) \o usedLabel
              \o toString(roundMB(data.garbage)) \o garbageLabel
              \o toString(data.majorGCs) \o majorLabel
              \o toString(data.minorGCs) \o minorLabel
              \o toString(data.duration) \o durationLabel

\* the statistics heapTracing.stop() hands to a console handler: the
\* sessions do not follow the collector's numbers, their lines carry those
\* the collector last returned
stoppedWith == heap.returned

\* ------------------------------------------------------------ launch()
\* the synchronous part of launchDesktop: the abort listener and the spawn
spawnDesktop(w0, n) == [w0 EXCEPT !.child[n] = "running", !.codeArgs[n] = markers]

\* the synchronous part of launchWeb, up to await chromium.launch()
startWeb(w0, n) ==
    [w0 EXCEPT !.stage[n] = "launch", !.browser[n] = "launching",
               !.request[n] = profDurationMarkers(durationMarker(markers))]

\* a loop body that never arms the timeout timer
startTrialNoTimer(w0, n) ==
    LET s == [w0 EXCEPT !.pc = "race", !.i = n,
                        !.started = Append(@, n),
                        !.sigintListeners = @ \cup {n},
                        !.promise[n] = "pending"]
    IN  IF runtime = "Desktop" THEN spawnDesktop(s, n) ELSE startWeb(s, n)

\* a loop body that hands every trial the signal of the trial before it
startTrialSharedSignal(w0, n) ==
    LET s == [w0 EXCEPT !.pc = "race", !.i = n,
                        !.started = Append(@, n),
                        !.sigintListeners = @ \cup {n},
                        !.promise[n] = "pending",
                        !.handle[n] = "pending",
                        !.aborted[n] = (n > 1 /\ w0.aborted[n - 1])]
    IN  IF runtime = "Desktop" THEN spawnDesktop(s, n) ELSE startWeb(s, n)

\* one pass of the loop body up to await Promise.race
startTrial(w0, n) ==
    LET s == [w0 EXCEPT !.pc = "race", !.i = n,
                        !.started = Append(@, n),
                        !.sigintListeners = @ \cup {n},
                        !.promise[n] = "pending",
                        !.handle[n] = "pending"]
    IN  IF runtime = "Desktop" THEN spawnDesktop(s, n) ELSE startWeb(s, n)

\* a loop that runs a trial again when it timed out
nextIterationRetry(w0) ==
    IF w0.timedOut[w0.i] THEN startTrial(w0, w0.i)
    ELSE IF w0.i < runs THEN startTrial(w0, w0.i + 1)
    ELSE [w0 EXCEPT !.pc = "done", !.summary = summaryLines(w0.durations, markers)]

\* the end of the loop body: the next trial, or the summary
nextIteration(w0) ==
    IF w0.i < runs THEN startTrial(w0, w0.i + 1)
    ELSE [w0 EXCEPT !.pc = "done", !.summary = summaryLines(w0.durations, markers)]

\* the timer callback and the if (timedOut) branch without abort()
onTimeoutNoAbort(w0) ==
    LET t == w0.i
        a == [w0 EXCEPT !.timedOut[t] = TRUE, !.handle[t] = "fired",
                        !.outcome[t] = "timeout",
                        !.warnings[t] = @ \cup {"timeout after"}]
    IN  nextIteration(a)

\* the timer callback and the if (timedOut) branch
onTimeout(w0) ==
    LET t == w0.i
        a == [w0 EXCEPT !.timedOut[t] = TRUE, !.handle[t] = "fired",
                        !.outcome[t] = "timeout",
                        !.warnings[t] = @ \cup {"timeout after"}]
    IN  nextIteration(abort(a, t))

\* the else branch without the interruption check
onContentNoExit(w0, content) ==
    LET t == w0.i
        c == [w0 EXCEPT !.handle[t] = "cleared"]
    IN  IF Truthy(content)
        THEN nextIteration([logMarkers(c, content, markers) EXCEPT !.outcome[t] = "data"])
        ELSE nextIteration([c EXCEPT !.outcome[t] = "nodata",
                                     !.warnings[t] = @ \cup {"no perf data found."}])

\* the else branch without clearTimeout(handle)
onContentNoClear(w0, content) ==
    LET t == w0.i
    IN  IF w0.aborted[t]
        THEN [w0 EXCEPT !.pc = "exited", !.exit = "exit()",
                        !.outcome[t] = "abort", !.dropped[t] = content]
        ELSE IF Truthy(content)
        THEN nextIteration([logMarkers(w0, content, markers) EXCEPT !.outcome[t] = "data"])
        ELSE nextIteration([w0 EXCEPT !.outcome[t] = "nodata",
                                      !.warnings[t] = @ \cup {"no perf data found."}])

\* the else branch: the strategy promise won the race with content
onContent(w0, content) ==
    LET t == w0.i
        c == [w0 EXCEPT !.handle[t] = "cleared"]
    IN  IF c.aborted[t]
        THEN [c EXCEPT !.pc = "exited", !.exit = "exit()",
                       !.outcome[t] = "abort", !.dropped[t] = content]
        ELSE IF Truthy(content)
        THEN nextIteration([logMarkers(c, content, markers) EXCEPT !.outcome[t] = "data"])
        ELSE nextIteration([c EXCEPT !.outcome[t] = "nodata",
                                     !.warnings[t] = @ \cup {"no perf data found."}])

\* run()'s catch: the error is printed and the process exits with status 1
\* (index.ts:77-80)
runFailed(w0) == [w0 EXCEPT !.pc = "failed", !.errors = @ + 1, !.exit = "exit(1)"]

\* a rejection that is only printed: the loop goes on
onRejectionContinue(w0) ==
    nextIteration([w0 EXCEPT !.errors = @ + 1, !.outcome[w0.i] = "error"])

\* the strategy promise rejected: launch() throws, run() prints and exits 1
onRejection(w0) == [runFailed(w0) EXCEPT !.outcome[w0.i] = "error"]

\* the strategy promise of trial t settles; launch() continues when its race
\* for t is still open
settle(w0, t, kind, content) ==
    LET s == [w0 EXCEPT !.promise[t] = kind, !.output[t] = content]
    IN  IF s.pc = "race" /\ s.i = t
        THEN IF kind = "resolved" THEN onContent(s, content) ELSE onRejection(s)
        ELSE [s EXCEPT !.dropped[t] = content]

\* ------------------------------------------------------- launchDesktop
\* the child's exit event without the resolve() of the awaited promise
afterExitNoResolve(w0, t) == [w0 EXCEPT !.child[t] = "exited"]

\* the child's exit event and what launchDesktop does after its await
afterExit(w0, t) ==
    LET e == [w0 EXCEPT !.child[t] = "exited"]
        content == readLastLineSync(e.timersFile)
    IN  IF e.perfFile.exists
        THEN settle(e, t, "resolved", readLastLineSync(e.perfFile))
        ELSE IF profAppendTimers
        THEN IF e.timersFile.exists
             THEN settle(e, t, "resolved",
                         Str(content.by, ellapsed \o <<TAB>> \o content.text))
             ELSE settle(e, t, "rejected", Undefined) \* readFileSync throws
        ELSE settle(e, t, "resolved", Undefined)

\* ----------------------------------------------------------- launchWeb
\* chromium.launch() is done: the abort listener, the aborted check, newPage
afterLaunch(w0, t) ==
    [w0 EXCEPT !.closeListener[t] = TRUE,
               !.browser[t] = IF w0.aborted[t] THEN "closed" ELSE "open",
               !.stage[t] = "newPage"]

\* an awaited browser call returns: it rejects once the browser is closed
afterAwait(w0, t, next) ==
    IF w0.browser[t] = "closed"
    THEN settle([w0 EXCEPT !.stage[t] = "failed"], t, "rejected", Undefined)
    ELSE [w0 EXCEPT !.stage[t] = next]

Remove(seq, k) == SubSeq(seq, 1, k - 1) \o SubSeq(seq, k + 1, Len(seq))

\* a console handler that ends without writing to the log
finishHandlerNoAppend(w0, t, k) ==
    LET payload == w0.handlers[t][k].payload
        f == [w0 EXCEPT !.handlers[t] = Remove(@, k), !.browser[t] = "closed"]
    IN  IF f.promise[t] = "pending"
        THEN settle(f, t, "resolved", Str(t, durationMarker(markers) \o <<TAB>> \o payload))
        ELSE f

\* the end of a console handler: close, append to the log, resolve
finishHandler(w0, t, k) ==
    LET payload == w0.handlers[t][k].payload
        line == payload \o <<TAB>> \o gcStatisticsToString(stoppedWith)
        f == [w0 EXCEPT !.handlers[t] = Remove(@, k),
                        !.browser[t] = "closed",
                        !.perfFile = [exists |-> TRUE,
                                      lines |-> Append(@.lines, [by |-> t, text |-> line])]]
    IN  IF f.promise[t] = "pending"
        THEN settle(f, t, "resolved", Str(t, durationMarker(markers) \o <<TAB>> \o payload))
        ELSE f

\* -------------------------------------------------------- heap tracing
\* a field of event.args: a number, or missing
Missing == [isNumber |-> FALSE, value |-> 0]
Number(v) == [isNumber |-> TRUE, value |-> v]

Event(name, hasArgs, before, after, dur) ==
    [name |-> name, args |-> hasArgs, usedHeapSizeBefore |-> before,
     usedHeapSizeAfter |-> after, dur |-> dur]

\* the trace events the browser can report
TraceEvents ==
    { Event("MajorGC", TRUE, Number(100000), Number(60000), 0),
      Event("MinorGC", TRUE, Number(5000), Number(3000), 0),
      Event("MajorGC", TRUE, Number(7000), Missing, 0),
      Event("MinorGC", FALSE, Missing, Missing, 0),
      Event("V8.GCScavenger", FALSE, Missing, Missing, 1500),
      Event("V8.GCFinalizeMC", FALSE, Missing, Missing, 700),
      Event("MajorGC", FALSE, Missing, Missing, 2000),
      Event("V8.Execute", FALSE, Missing, Missing, 10) }

\* the answers of Runtime.getHeapUsage
UsedSizes == {50000, 70000}

Heap0 == [pc |-> "idle", data |-> <<>>,
          listening |-> FALSE,       \* the once('Tracing.tracingComplete') listener is on
          endAnswered |-> FALSE,     \* await cdp.send('Tracing.end') has returned
          completeEmitted |-> FALSE, \* the browser has sent Tracing.tracingComplete
          completeReceived |-> FALSE, \* the tracingComplete promise is resolved
          reduced |-> <<>>,          \* the events the statistics loop went through
          minorGCs |-> 0, majorGCs |-> 0, garbage |-> 0, duration |-> 0,
          usedSizeBeforeGC |-> 0, usedSizeAfterGC |-> 0,
          returned |-> [minorGCs |-> 0, majorGCs |-> 0, used |-> 0,
                        garbage |-> 0, duration |-> 0]]

\* the summand of an event without the typeof checks
eventGarbageUnchecked(event) ==
    event.usedHeapSizeBefore.value - event.usedHeapSizeAfter.value

\* if (event.args && typeof ... === 'number' && ...) garbage += before - after
eventGarbage(event) ==
    IF event.args /\ event.usedHeapSizeAfter.isNumber /\ event.usedHeapSizeBefore.isNumber
    THEN event.usedHeapSizeBefore.value - event.usedHeapSizeAfter.value
    ELSE 0

\* one pass of the switch: case 'MinorGC' has no break and falls through
\* into case 'MajorGC'
onEvent(h, event) ==
    IF event.name = "MinorGC"
    THEN [h EXCEPT !.minorGCs = @ + 1, !.majorGCs = @ + 1,
                   !.garbage = @ + eventGarbage(event)]
    ELSE IF event.name = "MajorGC"
    THEN [h EXCEPT !.majorGCs = @ + 1, !.garbage = @ + eventGarbage(event)]
    ELSE IF event.name \in {"V8.GCFinalizeMC", "V8.GCScavenger"}
    THEN [h EXCEPT !.duration = @ + event.dur]
    ELSE h

\* for (const event of data)
RECURSIVE computeStatistics(_, _)
computeStatistics(h, data) ==
    IF data = <<>> THEN h
    ELSE computeStatistics(onEvent(h, Head(data)), Tail(data))

\* a conversion to milliseconds that cuts the fraction off
truncateThousandth(x) == x \div 1000

\* Math.round(x / 1000) for x >= 0
roundThousandth(x) == (x + 500) \div 1000

\* a stop() that sends Tracing.end and registers no listener
resolveStartupHeapStatisticsUnregistered(h) == [h EXCEPT !.pc = "ending"]

\* resolveStartupHeapStatistics up to await cdp.send('Tracing.end'): the
\* once-listener is registered, then the request is sent
resolveStartupHeapStatistics(h) == [h EXCEPT !.pc = "ending", !.listening = TRUE]

\* both awaits are over: the statistics loop, then collectHeapSnaptshot's
\* first request
reduceEvents(h) ==
    IF h.endAnswered /\ h.completeReceived
    THEN [computeStatistics(h, h.data) EXCEPT !.pc = "usedBefore", !.reduced = h.data]
    ELSE h

\* the answer to Tracing.end arrives
onEndAnswered(h) == reduceEvents([h EXCEPT !.endAnswered = TRUE])

\* the Tracing.tracingComplete event arrives: a once-listener that is
\* registered resolves the promise, otherwise the event is lost
onTracingComplete(h) ==
    reduceEvents([h EXCEPT !.completeEmitted = TRUE,
                           !.completeReceived = h.listening,
                           !.listening = FALSE])

\* collectHeapSnaptshot returns and resolveStartupHeapStatistics returns
returnStatistics(h, usedSizeAfterGC) ==
    LET heapSnapshot == [used |-> usedSizeAfterGC,
                         garbage |-> h.usedSizeBeforeGC - usedSizeAfterGC]
    IN  [h EXCEPT !.pc = "returned",
                  !.usedSizeAfterGC = usedSizeAfterGC,
                  !.garbage = @ + heapSnapshot.garbage,
                  !.returned = [minorGCs |-> h.minorGCs, majorGCs |-> h.majorGCs,
                                used |-> heapSnapshot.used,
                                garbage |-> h.garbage + heapSnapshot.garbage,
                                duration |-> roundThousandth(h.duration)]]

\* ------------------------------------------------------------- actions
Init ==
    /\ runtime \in {"Desktop", "Web"}
    /\ cli = NoCli
    /\ \E n \in 1..MaxRuns :
          options = [build |-> IF runtime = "Desktop" THEN codePath ELSE vscodeDev,
                     runs |-> Given(n),
                     profAppendHeapStatistics |-> FALSE]
    /\ runs = resolveRuns(options)
    /\ args = NoArgs
    /\ \E dm \in DurationMarkersOptions :
          markers = IF Len(dm) > 0 THEN dm ELSE <<ellapsed>>
    /\ profAppendTimers \in (IF runtime = "Desktop" THEN BOOLEAN ELSE {FALSE})
    /\ w = W0
    /\ heap = Heap0

Config == <<runtime, runs, markers, profAppendTimers, heap, cli, options, args>>

\* a launch that goes to the first trial whatever options.build is
launchAnyBuild(w0) == startTrial(w0, 1)

\* launch() up to its first await that waits: in the web runtime
\* preparePlaywright parses options.build and throws when it is no URL
launch(w0) ==
    IF runtime = "Web" /\ ~parsesAsURL(options.build)
    THEN runFailed(w0)
    ELSE startTrial(w0, 1)

Launch ==
    /\ w.pc = "start"
    /\ w' = launch(w)
    /\ UNCHANGED Config

\* the timeout timer of the running trial fires
TimerFires ==
    /\ w.pc = "race"
    /\ w.handle[w.i] = "pending"
    /\ w' = onTimeout(w)
    /\ UNCHANGED Config

\* the process receives SIGINT while abortListeners are registered
Sigint ==
    /\ w.pc = "race"
    /\ w.sigintListeners # {}
    /\ w' = [emitSigint(w, w.sigintListeners) EXCEPT !.interruptedIn = @ \cup {w.i}]
    /\ UNCHANGED Config

\* SIGINT with no listener registered: the default action ends the process
SigintDefault ==
    /\ w.pc = "race"
    /\ w.sigintListeners = {}
    /\ w' = [w EXCEPT !.pc = "killed", !.exit = "SIGINT",
                      !.interruptedIn = @ \cup {w.i}]
    /\ UNCHANGED Config

\* the target of trial t writes its timing line to the instrumentation file
ChildWrites(t, text) ==
    /\ Alive(w)
    /\ w.child[t] \in {"running", "signalled"}
    /\ w' = [w EXCEPT !.perfFile = [exists |-> TRUE,
                                    lines |-> <<[by |-> t, text |-> text]>>]]
    /\ UNCHANGED Config

\* the target of trial t writes the append-timers file
ChildWritesTimers(t, text) ==
    /\ Alive(w)
    /\ profAppendTimers
    /\ w.child[t] \in {"running", "signalled"}
    /\ w' = [w EXCEPT !.timersFile = [exists |-> TRUE,
                                      lines |-> <<[by |-> t, text |-> text]>>]]
    /\ UNCHANGED Config

\* the child of trial t exits on its own
ChildExits(t) ==
    /\ Alive(w)
    /\ w.child[t] = "running"
    /\ w' = afterExit(w, t)
    /\ UNCHANGED Config

\* the child of trial t exits after kill()
KilledChildExits(t) ==
    /\ Alive(w)
    /\ w.child[t] = "signalled"
    /\ w' = afterExit(w, t)
    /\ UNCHANGED Config

BrowserLaunched(t) ==
    /\ Alive(w)
    /\ w.stage[t] = "launch"
    /\ w' = afterLaunch(w, t)
    /\ UNCHANGED Config

PageCreated(t) ==
    /\ Alive(w)
    /\ w.stage[t] = "newPage"
    /\ w' = afterAwait(w, t, "cdp")
    /\ UNCHANGED Config

\* newCDPSession and startHeapTracing are done; the console listener is on
TracingStarted(t) ==
    /\ Alive(w)
    /\ w.stage[t] = "cdp"
    /\ w' = afterAwait(w, t, "listening")
    /\ UNCHANGED Config

\* the page prints a [prof-timers] line
ConsoleTimers(t, payload) ==
    /\ Alive(w)
    /\ w.stage[t] = "listening"
    /\ w.browser[t] = "open"
    /\ w.consoleLines < MaxConsole
    /\ w' = [w EXCEPT !.handlers[t] = Append(@, [stage |-> "settle", payload |-> payload]),
                      !.consoleLines = @ + 1]
    /\ UNCHANGED Config

\* the 3000 ms settle delay of a handler is over: heapTracing.stop() is
\* called; on a browser that is already closed its first cdp.send rejects
SettleElapsed(t, k) ==
    /\ Alive(w)
    /\ k \in DOMAIN w.handlers[t]
    /\ w.handlers[t][k].stage = "settle"
    /\ w' = IF w.browser[t] = "closed"
            THEN [w EXCEPT !.handlers[t] = Remove(@, k)]
            ELSE [w EXCEPT !.handlers[t][k].stage = "stop"]
    /\ UNCHANGED Config

\* heapTracing.stop() resolves; a call in flight when the browser is asked to
\* close may still get its answers
TracingStopped(t, k) ==
    /\ Alive(w)
    /\ k \in DOMAIN w.handlers[t]
    /\ w.handlers[t][k].stage = "stop"
    /\ w' = finishHandler(w, t, k)
    /\ UNCHANGED Config

\* heapTracing.stop() rejects: the handler ends, nobody observes its promise
TracingFails(t, k) ==
    /\ Alive(w)
    /\ k \in DOMAIN w.handlers[t]
    /\ w.handlers[t][k].stage = "stop"
    /\ w' = [w EXCEPT !.handlers[t] = Remove(@, k),
                      !.stopFailed[t] = @ \/ (w.pc = "race" /\ w.i = t)]
    /\ UNCHANGED Config

Next ==
    \/ Launch
    \/ TimerFires
    \/ Sigint
    \/ SigintDefault
    \/ \E t \in Trials, text \in AppOutputs : ChildWrites(t, text)
    \/ \E t \in Trials, text \in TimerOutputs : ChildWritesTimers(t, text)
    \/ \E t \in Trials : ChildExits(t)
    \/ \E t \in Trials : KilledChildExits(t)
    \/ \E t \in Trials : BrowserLaunched(t)
    \/ \E t \in Trials : PageCreated(t)
    \/ \E t \in Trials : TracingStarted(t)
    \/ \E t \in Trials, payload \in PagePayloads : ConsoleTimers(t, payload)
    \/ \E t \in Trials, k \in 1..MaxConsole : SettleElapsed(t, k)
    \/ \E t \in Trials, k \in 1..MaxConsole : TracingStopped(t, k)
    \/ \E t \in Trials, k \in 1..MaxConsole : TracingFails(t, k)

Spec == Init /\ [][Next]_vars

\* launch() runs once it is called, and the timer of the running trial
\* fires unless it is cleared first (setTimeout, perf.ts:203-206)
FairSpec == Spec /\ WF_vars(Launch) /\ WF_vars(TimerFires)

\* ------------------------------------- a native session of any trial count
\* a session whose options may leave runs out, with the trials of the
\* default count; the target of the first or of the second trial writes the
\* timing line, while its trial runs
AllTrials == 1..PERFORMANCE_RUNS

InitAnyRuns ==
    /\ runtime = "Desktop"
    /\ cli = NoCli
    /\ \E r \in {NoRuns} \cup { Given(n) : n \in 1..MaxRuns } :
          options = [build |-> codePath, runs |-> r,
                     profAppendHeapStatistics |-> FALSE]
    /\ runs = resolveRuns(options)
    /\ markers = <<ellapsed>>
    /\ profAppendTimers = FALSE
    /\ w = WInit(AllTrials)
    /\ heap = Heap0
    /\ args = NoArgs

NextAnyRuns ==
    \/ Launch
    \/ TimerFires
    \/ /\ ~w.perfFile.exists /\ w.pc = "race" /\ w.i <= 2
       /\ ChildWrites(w.i, ellapsed \o <<TAB, "7">>)
    \/ \E t \in AllTrials : ChildExits(t)
    \/ \E t \in AllTrials : KilledChildExits(t)

SpecAnyRuns == InitAnyRuns /\ [][NextAnyRuns]_vars

\* ------------------------------------------- a session entered through run()
\* run() called with the options of the command line resolves the build and
\* calls launch(); launch() is also called directly, with a build of the
\* caller's choice. The native target writes nothing, the hosted one gets as
\* far as its browser.
Qualities == {stable, insider, exploration}
BuildsGiven == Qualities \cup {buildUrl, codePath}
CommitsGiven == {NotGiven, Given(latest), Given(commitHash)}

InitEntry ==
    /\ runtime \in {"Desktop", "Web"}
    /\ \/ /\ \E b \in BuildsGiven, c \in CommitsGiven : cli = Cli(b, c)
          /\ w = [W0 EXCEPT !.pc = "run"]
          /\ \E n \in 1..MaxRuns : options = [build |-> cli.build, runs |-> Given(n),
                     profAppendHeapStatistics |-> FALSE]
       \/ /\ cli = NoCli
          /\ w = W0
          /\ \E b \in {vscodeDev, buildUrl, codePath}, n \in 1..MaxRuns :
                options = [build |-> b, runs |-> Given(n),
                     profAppendHeapStatistics |-> FALSE]
    /\ runs = resolveRuns(options)
    /\ markers = <<ellapsed>>
    /\ profAppendTimers \in (IF runtime = "Desktop" THEN BOOLEAN ELSE {FALSE})
    /\ heap = Heap0
    /\ args = NoArgs

\* await getBuild(options, runtime) returns and run() calls launch()
BuildResolved ==
    /\ w.pc = "run"
    /\ options' = [options EXCEPT !.build = getBuild(cli, runtime)]
    /\ w' = [w EXCEPT !.pc = "start"]
    /\ UNCHANGED <<runtime, runs, markers, profAppendTimers, heap, cli, args>>

\* installBuild rejects (no such build, no network): run() prints and exits 1
BuildFails ==
    /\ w.pc = "run"
    /\ runtime = "Desktop"
    /\ cli.build \in Qualities
    /\ w' = runFailed(w)
    /\ UNCHANGED Config

NextEntry ==
    \/ BuildResolved
    \/ BuildFails
    \/ Launch
    \/ TimerFires
    \/ \E t \in Trials : ChildExits(t)
    \/ \E t \in Trials : KilledChildExits(t)
    \/ \E t \in Trials : BrowserLaunched(t)

SpecEntry == InitEntry /\ [][NextEntry]_vars

\* ------------------------------------------------------ a hosted session
\* a session of the web runtime, with heap statistics asked for or not and
\* marker lists that agree or differ in what follows the first marker
HostedMarkers == { <<ellapsed>>, <<ab, ellapsed>>, <<ab, aDotB>> }

InitHosted ==
    /\ runtime = "Web"
    /\ cli = NoCli
    /\ \E n \in 1..MaxRuns, h \in BOOLEAN :
          options = [build |-> vscodeDev, runs |-> Given(n),
                     profAppendHeapStatistics |-> h]
    /\ runs = resolveRuns(options)
    /\ markers \in HostedMarkers
    /\ profAppendTimers = FALSE
    /\ w = W0
    /\ heap = Heap0
    /\ args = NoArgs

NextHosted ==
    \/ Launch
    \/ TimerFires
    \/ \E t \in Trials : BrowserLaunched(t)
    \/ \E t \in Trials : PageCreated(t)
    \/ \E t \in Trials : TracingStarted(t)
    \/ \E t \in Trials, payload \in PagePayloads : ConsoleTimers(t, payload)
    \/ \E t \in Trials, k \in 1..MaxConsole : SettleElapsed(t, k)
    \/ \E t \in Trials, k \in 1..MaxConsole : TracingStopped(t, k)
    \/ \E t \in Trials, k \in 1..MaxConsole : TracingFails(t, k)

SpecHosted == InitHosted /\ [][NextHosted]_vars

\* ------------------------------ a native session that finds files in place
\* the files a session can find at the paths it was given
timingLine == [by |-> 0, text |-> ellapsed \o <<TAB, "7">>]
FilesInPlace ==
    { NoFile,
      [exists |-> TRUE, lines |-> <<>>],
      [exists |-> TRUE, lines |-> <<EmptyLine>>],
      [exists |-> TRUE, lines |-> <<timingLine>>],
      [exists |-> TRUE, lines |-> <<[by |-> 0, text |-> <<"x">>], timingLine, EmptyLine>>] }

InitNative ==
    /\ runtime = "Desktop"
    /\ cli = NoCli
    /\ \E n \in 1..MaxRuns : options = [build |-> codePath, runs |-> Given(n),
                     profAppendHeapStatistics |-> FALSE]
    /\ runs = resolveRuns(options)
    /\ markers \in { <<ellapsed>>, <<ellapsed, ellapsed>>, <<ab, ellapsed>> }
    /\ profAppendTimers \in BOOLEAN
    /\ \E f \in FilesInPlace, g \in (IF profAppendTimers THEN FilesInPlace ELSE {NoFile}) :
          w = [W0 EXCEPT !.perfFile = f, !.timersFile = g]
    /\ heap = Heap0
    /\ args = NoArgs

NextNative ==
    \/ Launch
    \/ TimerFires
    \/ \E t \in Trials : ChildExits(t)
    \/ \E t \in Trials : KilledChildExits(t)

SpecNative == InitNative /\ [][NextNative]_vars

\* -------------------------------------------------------- logMarker alone
\* the contents logMarker is called with
SampleTexts ==
    { ellapsed \o <<TAB, "1", "0", "0">>,
      ellapsed \o <<TAB, "3", "0", "0">>,
      ellapsed \o <<TAB, "2", "0", "0">>,
      ellapsed \o <<" ", "7">>,
      ellapsed \o <<"x", " ">> \o ellapsed \o <<" ", TAB, "4", "2", "x", "9">>,
      <<"a", "x", "b", " ", "5", " ">> \o aDotB \o <<TAB, "6">>,
      <<"x">> }

\* the markers logMarker is called with
SampleMarkers == {ellapsed, aDotB}

InitLogMarker ==
    /\ runtime = "Desktop"
    /\ cli = NoCli
    /\ options = [build |-> codePath, runs |-> Given(1),
                     profAppendHeapStatistics |-> FALSE]
    /\ runs = resolveRuns(options)
    /\ args = NoArgs
    /\ markers = <<ellapsed>>
    /\ profAppendTimers = FALSE
    /\ w = [W0 EXCEPT !.pc = "race", !.i = 1]
    /\ heap = Heap0

LogMarkerCall(text, marker) ==
    /\ w.parsed[1] < MaxSamples
    /\ args' = [content |-> text, marker |-> marker]
    /\ w' = logMarker(w, Str(1, text), marker)
    /\ UNCHANGED <<runtime, runs, markers, profAppendTimers, heap, cli, options>>

NextLogMarker ==
    \E text \in SampleTexts, marker \in SampleMarkers : LogMarkerCall(text, marker)

SpecLogMarker == InitLogMarker /\ [][NextLogMarker]_vars

\* ------------------------------------------------- the heap tracing alone
InitHeap ==
    /\ runtime = "Web"
    /\ cli = NoCli
    /\ options = [build |-> vscodeDev, runs |-> Given(1),
                     profAppendHeapStatistics |-> FALSE]
    /\ runs = resolveRuns(options)
    /\ args = NoArgs
    /\ markers = <<ellapsed>>
    /\ profAppendTimers = FALSE
    /\ w = W0
    /\ heap = Heap0

Session == <<runtime, runs, markers, profAppendTimers, w, cli, options, args>>

\* startHeapTracing: Tracing.start is answered, the data listener is on
StartHeapTracing ==
    /\ heap.pc = "idle"
    /\ heap' = [heap EXCEPT !.pc = "tracing"]
    /\ UNCHANGED Session

\* Tracing.dataCollected: data.push(...e.value); the browser reports events
\* until it reports the completion
DataCollected(event) ==
    /\ heap.pc \in {"tracing", "ending"}
    /\ ~heap.completeEmitted
    /\ Len(heap.data) < MaxEvents
    /\ heap' = [heap EXCEPT !.data = Append(@, event)]
    /\ UNCHANGED Session

\* stop(): resolveStartupHeapStatistics sends Tracing.end
StopHeapTracing ==
    /\ heap.pc = "tracing"
    /\ heap' = resolveStartupHeapStatistics(heap)
    /\ UNCHANGED Session

\* the browser answers Tracing.end
EndAnswered ==
    /\ heap.pc = "ending"
    /\ ~heap.endAnswered
    /\ heap' = onEndAnswered(heap)
    /\ UNCHANGED Session

\* the browser sends Tracing.tracingComplete, before or after its answer
TracingComplete ==
    /\ heap.pc = "ending"
    /\ ~heap.completeEmitted
    /\ heap' = onTracingComplete(heap)
    /\ UNCHANGED Session

\* the first Runtime.getHeapUsage is answered: HeapProfiler.collectGarbage
HeapUsageBeforeGC(usedSize) ==
    /\ heap.pc = "usedBefore"
    /\ heap' = [heap EXCEPT !.pc = "collectGarbage", !.usedSizeBeforeGC = usedSize]
    /\ UNCHANGED Session

\* HeapProfiler.collectGarbage is answered: the second Runtime.getHeapUsage
GarbageCollected ==
    /\ heap.pc = "collectGarbage"
    /\ heap' = [heap EXCEPT !.pc = "usedAfter"]
    /\ UNCHANGED Session

\* the second Runtime.getHeapUsage is answered: the statistics are returned
HeapUsageAfterGC(usedSize) ==
    /\ heap.pc = "usedAfter"
    /\ heap' = returnStatistics(heap, usedSize)
    /\ UNCHANGED Session

NextHeap ==
    \/ StartHeapTracing
    \/ \E event \in TraceEvents : DataCollected(event)
    \/ StopHeapTracing
    \/ EndAnswered
    \/ TracingComplete
    \/ \E usedSize \in UsedSizes : HeapUsageBeforeGC(usedSize)
    \/ GarbageCollected
    \/ \E usedSize \in UsedSizes : HeapUsageAfterGC(usedSize)

SpecHeap == InitHeap /\ [][NextHeap]_vars

\* ================================================================ claims
Range(seq) == { seq[k] : k \in DOMAIN seq }
Settled(t) == w.promise[t] \in {"resolved", "rejected"}
HasMarkerValue(content) ==
    \E m \in Range(markers) : regexExec(content.text, m) # <<>>

\* C1: when the timeout timer of the running trial fires while its strategy
\* promise is pending, the same turn aborts that trial's signal, makes no
\* logMarker call and records nothing for it, and starts the next trial, or
\* ends the loop (summary) when it was the last one.
C1_TimeoutAbortsAndProceeds ==
    [][ (w.pc = "race" /\ w.handle[w.i] = "pending" /\ w'.handle[w.i] = "fired")
        => LET t == w.i
           IN  /\ w.promise[t] = "pending"
               /\ w'.aborted[t]
               /\ w'.parsed[t] = 0
               /\ w'.durations = w.durations
               /\ IF t < runs
                  THEN w'.pc = "race" /\ w'.i = t + 1 /\ w'.promise[t + 1] = "pending"
                  ELSE w'.pc = "done" ]_vars

C1_Witness ==
    \E t \in Trials :
        /\ w.timedOut[t] /\ w.aborted[t] /\ w.parsed[t] = 0
        /\ w.pc = "race" /\ w.i = t + 1

\* C2: once a SIGINT arrived while trial t was running, no later trial is
\* started and the summary is not printed.
C2_InterruptEndsSession ==
    \A t \in w.interruptedIn : w.i = t /\ w.pc # "done"

\* C3: in launchWeb, while the process lives, a trial whose signal is
\* aborted has a closed browser and a settled promise, or a step of
\* launchWeb is still due for it (an awaited browser call, a console
\* handler in flight): its promise is never left with nothing to settle it.
WebStepDue(t) ==
    \/ w.stage[t] \in {"launch", "newPage", "cdp"}
    \/ w.handlers[t] # <<>>

C3_WebAbortSettles ==
    \A t \in Trials :
        (runtime = "Web" /\ w.aborted[t] /\ Alive(w))
            => \/ w.browser[t] = "closed" /\ Settled(t)
               \/ WebStepDue(t)

\* C4: a trial that timed out or was interrupted never has a sample recorded
\* for it, and no logMarker call is made for it.
C4_NoSampleFromCancelledTrial ==
    \A t \in Trials :
        (w.timedOut[t] \/ t \in w.interruptedIn)
            => /\ w.parsed[t] = 0
               /\ \A s \in w.samples : s.trial # t

C4_Witness ==
    /\ \E t \in Trials :
          /\ w.timedOut[t] /\ w.promise[t] = "resolved"
          /\ HasMarkerValue(w.dropped[t])
    /\ \E t \in w.interruptedIn :
          /\ ~w.timedOut[t] /\ w.outcome[t] = "abort"
          /\ HasMarkerValue(w.dropped[t])

\* C5: at most one trial has a child process that has not exited or a
\* browser that has not been closed.
Executing(t) ==
    \/ w.child[t] \in {"running", "signalled"}
    \/ w.browser[t] \in {"launching", "open"}

C5_OneStrategyAtATime ==
    \A t1, t2 \in Trials : Executing(t1) /\ Executing(t2) => t1 = t2

\* C6: every sample recorded while processing trial i was written by the
\* target launched in trial i.
C6_SampleOfOwnTrial ==
    \A s \in w.samples : s.by = s.trial

\* C7: in the native runtime, between two turns of the event loop a trial
\* whose signal is aborted never has a running child that was not sent the
\* termination signal.
C7_KillBeforeProceeding ==
    \A t \in Trials :
        (runtime = "Desktop" /\ w.aborted[t]) => w.child[t] # "running"

C7_Witness ==
    /\ runtime = "Desktop"
    /\ \E t \in Trials : w.timedOut[t] /\ w.child[t] = "signalled" /\ w.i = t + 1
    /\ \E t \in w.interruptedIn : ~w.timedOut[t] /\ w.child[t] = "signalled"

\* C8: in the native runtime the exit of the child settles the promise of
\* launchDesktop, and while the process lives a trial whose signal is
\* aborted either has a settled promise or a child that was sent the
\* termination signal and whose exit is due; so the promise settles as
\* soon as the killed child exits.
C8_DesktopAbortSettles ==
    \A t \in Trials :
        runtime = "Desktop" =>
            /\ w.child[t] = "exited" => Settled(t)
            /\ (w.aborted[t] /\ Alive(w) /\ ~Settled(t))
                  => (w.child[t] = "signalled" /\ ENABLED KilledChildExits(t))

C8_Witness ==
    /\ runtime = "Desktop"
    /\ \E t \in Trials : w.timedOut[t] /\ w.child[t] = "exited" /\ Settled(t)

\* C9: when the process has exited on an interrupt, the signal of the
\* running trial is aborted and no child is running unsignalled and no
\* browser is launching or open without a close request.
C9_NoOrphanAtExit ==
    w.pc \in {"exited", "killed"}
        => /\ w.aborted[w.i]
           /\ \A t \in Trials :
                 /\ w.child[t] # "running"
                 /\ w.browser[t] \notin {"launching", "open"}

\* C10: every marker's sample sequence is sorted ascending.
C10_DurationsSorted ==
    \A m \in MarkerNames : IsSorted(w.durations[m])

C10_Witness ==
    \E m \in MarkerNames :
        Len(w.durations[m]) >= 2 /\ w.durations[m][1] < w.durations[m][2]

\* C11: the last line logMarker printed for a marker shows the minimum of
\* the marker's samples as fastest, the maximum as slowest, and as median
\* the middle sample in ascending order for an odd count or the mean of the
\* two middle samples for an even count; so fastest <= median <= slowest.
Min(S) == CHOOSE x \in S : \A y \in S : x <= y
Max(S) == CHOOSE x \in S : \A y \in S : x >= y
FigureLeq(a, b) == a.defined /\ b.defined /\ a.num * b.den <= b.num * a.den

C11_LineFigures ==
    \A m \in MarkerNames :
        w.lastLine[m].printed =>
            LET n == Len(w.durations[m])
                s == sort(w.durations[m])
                line == w.lastLine[m]
            IN  /\ n >= 1
                /\ line.fastest = Num(Min(Range(w.durations[m])))
                /\ line.slowest = Num(Max(Range(w.durations[m])))
                /\ line.median = IF n % 2 = 1 THEN Num(s[(n + 1) \div 2])
                                 ELSE Half(s[n \div 2] + s[n \div 2 + 1])
                /\ FigureLeq(line.fastest, line.median)
                /\ FigureLeq(line.median, line.slowest)

C11_Witness ==
    /\ w.durations[ellapsed] = <<100, 200, 300>>
    /\ w.lastLine[ellapsed] = [printed |-> TRUE, current |-> Num(200),
                               fastest |-> Num(100), slowest |-> Num(300),
                               median |-> Num(200)]

\* C12: after the loop, for every marker with at least one sample the
\* summary line shows the fastest, slowest and median figures of the
\* marker's last per-trial line.
C12_SummarySameFigures ==
    w.pc = "done" =>
        \A k \in DOMAIN w.summary :
            LET line == w.lastLine[w.summary[k].marker]
            IN  line.printed =>
                   /\ w.summary[k].fastest = line.fastest
                   /\ w.summary[k].slowest = line.slowest
                   /\ w.summary[k].median = line.median

\* C13: a trial whose content was parsed and had no match for one of the
\* configured markers has a warning printed for it.
C13_WarningOnNoMatch ==
    \A t \in Trials :
        (w.outcome[t] = "data" /\ w.nomatch[t] # {}) => w.warnings[t] # {}

\* C14: every trial whose content was parsed had logMarker called for each
\* configured marker and the session went on after it; a marker has one
\* sample for each parsed trial whose content matched it and none for the
\* trials whose content did not.
ParsedTrials == { t \in Trials : w.outcome[t] = "data" }

C14_NoMatchLeavesRestAlone ==
    /\ \A t \in ParsedTrials :
          /\ w.parsed[t] = Len(markers)
          /\ w.nomatch[t] \subseteq Range(markers)
          /\ (w.i > t \/ w.pc = "done")
    /\ \A m \in Range(markers) :
          Len(w.durations[m]) = Cardinality({ t \in ParsedTrials : m \notin w.nomatch[t] })

C14_Witness ==
    \E t \in ParsedTrials :
        /\ markers = <<ab, ellapsed>>
        /\ w.nomatch[t] = {ab}
        /\ Len(w.durations[ellapsed]) >= 1
        /\ w.i > t

\* C15: a native trial whose child exited on its own while neither the
\* instrumentation file nor the append-timers file exists is recovered: a
\* warning is printed for it, no sample is recorded for it and the session
\* has gone on.
C15_MissingFileRecovered ==
    \A t \in Trials :
        ( /\ runtime = "Desktop"
          /\ w.child[t] = "exited" /\ ~w.timedOut[t] /\ ~w.aborted[t]
          /\ ~w.perfFile.exists /\ ~w.timersFile.exists )
        => /\ w.warnings[t] # {}
           /\ \A s \in w.samples : s.trial # t
           /\ (w.i > t \/ w.pc = "done")

\* C16: a hosted trial in which heapTracing.stop() rejected after the page
\* had printed its [prof-timers] line ends with the timing text parsed and a
\* sample recorded.
C16_HeapFailureKeepsTiming ==
    \A t \in Trials :
        (runtime = "Web" /\ w.stopFailed[t] /\ w.outcome[t] # "none")
            => /\ w.outcome[t] = "data"
               /\ \E s \in w.samples : s.trial = t

\* C17: a last trial that times out, yields no data or is parsed ends the
\* loop with the summary; when no sample was recorded the summary has one
\* line per configured marker, in order, with undefined figures.
NoSamples == \A m \in MarkerNames : w.durations[m] = <<>>

C17_EmptySummary ==
    /\ w.outcome[runs] \in {"timeout", "nodata", "data"} => w.pc = "done"
    /\ (w.pc = "done" /\ NoSamples) =>
          /\ Len(w.summary) = Len(markers)
          /\ \A k \in DOMAIN markers :
                /\ w.summary[k].marker = markers[k]
                /\ w.summary[k].fastest = UndefinedFigure
                /\ w.summary[k].slowest = UndefinedFigure
                /\ w.summary[k].median = UndefinedFigure

C17_Witness ==
    /\ w.pc = "done" /\ NoSamples /\ Len(markers) = 2
    /\ \E t \in Trials : w.outcome[t] = "timeout"
    /\ \E t \in Trials : w.outcome[t] \in {"nodata", "data"}

\* C18: the statistics resolveStartupHeapStatistics returns count as
\* majorGCs the collected events named MajorGC and as minorGCs the collected
\* events named MinorGC.
CountNamed(name) ==
    Cardinality({ k \in DOMAIN heap.data : heap.data[k].name = name })

C18_GCCounts ==
    heap.pc = "returned" =>
        /\ heap.returned.majorGCs = CountNamed("MajorGC")
        /\ heap.returned.minorGCs = CountNamed("MinorGC")

\* C19: the returned garbage is the sum of usedHeapSizeBefore -
\* usedHeapSizeAfter over the collected MinorGC and MajorGC events that
\* carry both fields, plus the used size before the forced collection minus
\* the used size after it; the returned used figure is the size after it.
HasBothSizes(event) ==
    /\ event.name \in {"MinorGC", "MajorGC"}
    /\ event.args
    /\ event.usedHeapSizeBefore.isNumber
    /\ event.usedHeapSizeAfter.isNumber

RECURSIVE FreedByEvents(_)
FreedByEvents(data) ==
    IF data = <<>> THEN 0
    ELSE (IF HasBothSizes(Head(data))
          THEN Head(data).usedHeapSizeBefore.value - Head(data).usedHeapSizeAfter.value
          ELSE 0) + FreedByEvents(Tail(data))

C19_GarbageAndUsed ==
    heap.pc = "returned" =>
        /\ heap.returned.garbage =
              FreedByEvents(heap.data) + (heap.usedSizeBeforeGC - heap.usedSizeAfterGC)
        /\ heap.returned.used = heap.usedSizeAfterGC

C19_Witness ==
    /\ heap.pc = "returned"
    /\ heap.data = << Event("MajorGC", TRUE, Number(100000), Number(60000), 0),
                      Event("MajorGC", TRUE, Number(7000), Missing, 0) >>
    /\ heap.usedSizeBeforeGC = 70000 /\ heap.usedSizeAfterGC = 50000
    /\ heap.returned.garbage = 60000

\* C20: in a hosted session the log file holds exactly one line for each
\* trial that resolved with data and no line for any other trial.
LinesOf(t) == { k \in DOMAIN w.perfFile.lines : w.perfFile.lines[k].by = t }

C20_OneLinePerSuccessfulTrial ==
    runtime = "Web" =>
        \A t \in Trials :
            Cardinality(LinesOf(t)) =
                IF w.promise[t] = "resolved" /\ w.outcome[t] = "data" THEN 1 ELSE 0

\* C22: when the timeout timer of a running trial eventually fires unless it
\* is cleared, every session ends: it reaches the end of launch (the summary)
\* or the end of the process.
Terminated == w.pc \in {"done", "exited", "killed", "failed"}

C22_SessionTerminates == <>Terminated

C22_Witness ==
    /\ w.pc = "done"
    /\ \E t \in DOMAIN w.promise : w.timedOut[t] /\ w.promise[t] = "pending"

\* C21: the trials started so far are 1, 2, ..., i in this order, each
\* once; i never exceeds runs, which is the configured count or 10; and the
\* loop ends after trial runs.
C21_RunsTrialsInOrder ==
    /\ runs = IF options.runs.defined THEN options.runs.value ELSE 10
    /\ w.started = [k \in 1..w.i |-> k]
    /\ w.i <= runs
    /\ w.pc = "done" => w.i = runs

C21_Witness ==
    /\ w.pc = "done" /\ ~options.runs.defined /\ Len(w.started) = 10
    /\ \E t \in DOMAIN w.outcome : w.outcome[t] = "timeout"
    /\ \E t \in DOMAIN w.outcome : w.outcome[t] = "nodata"
    /\ \E t \in DOMAIN w.outcome : w.outcome[t] = "data"

\* C23: a marker's sequence holds, for each parsed trial whose text matched
\* the name, as many samples as the name occurs in the configured list;
\* there is one sequence per name.
Occurrences(m) == Cardinality({ k \in DOMAIN markers : markers[k] = m })

RECURSIVE SumOver(_, _)
SumOver(S, m) ==
    IF S = {} THEN 0
    ELSE LET t == CHOOSE x \in S : TRUE
         IN  (IF m \in w.nomatch[t] THEN 0 ELSE Occurrences(m)) + SumOver(S \ {t}, m)

C23_DuplicateNamesShareSequence ==
    /\ DOMAIN w.durations = MarkerNames
    /\ \A m \in MarkerNames : Len(w.durations[m]) = SumOver(ParsedTrials, m)

C23_Witness ==
    /\ markers = <<ellapsed, ellapsed>>
    /\ w.i = 2 /\ w.outcome[1] = "data"
    /\ w.durations[ellapsed] = <<7, 7>>

\* C29 as stated: when the child of a native trial exits, the promise of
\* launchDesktop resolves with the last non-empty line of the
\* instrumentation file if it exists, else with 'ellapsed' TAB the last
\* non-empty line of the append-timers file if one is configured, else with
\* no data; and when the file read has no non-empty line, a trial still in
\* its race ends with no data.
LastNonEmpty(file) ==
    LET full == { k \in DOMAIN file.lines : file.lines[k].text # <<>> }
    IN  IF full = {} THEN EmptyLine
        ELSE file.lines[CHOOSE k \in full : \A j \in full : j <= k]

Returned(file, prefix) ==
    Str(LastNonEmpty(file).by, prefix \o LastNonEmpty(file).text)

ExitOf(t) == w.child[t] \in {"running", "signalled"} /\ w'.child[t] = "exited"
InRace(t) == w.pc = "race" /\ w.i = t /\ ~w.aborted[t]

FollowedByNumber(text, m, p) ==
    /\ p + Len(m) <= Len(text)
    /\ SubSeq(text, p, p + Len(m) - 1) = m
    /\ text[p + Len(m)] \in Whitespace
    /\ \E d \in (p + Len(m) + 1)..Len(text) :
          /\ text[d] \in Digits
          /\ \A j \in (p + Len(m))..(d - 1) : text[j] \in Whitespace

RECURSIVE Decimal(_, _)
Decimal(text, d) ==
    IF d <= Len(text) /\ text[d] \in Digits
    THEN LET rest == Decimal(text, d + 1)
         IN  [value |-> DigitVal(text[d]) * rest.weight + rest.value,
              weight |-> rest.weight * 10]
    ELSE [value |-> 0, weight |-> 1]

NumberAfter(text, m, p) ==
    LET d == CHOOSE j \in (p + Len(m) + 1)..Len(text) :
                 /\ text[j] \in Digits
                 /\ \A i \in (p + Len(m))..(j - 1) : text[i] \in Whitespace
    IN  Decimal(text, d).value

C24_FirstNumberAfterMarker ==
    [][ LET text == args'.content
            m == args'.marker
            hits == { p \in 1..Len(text) : FollowedByNumber(text, m, p) }
            first == CHOOSE p \in hits : \A o \in hits : p <= o
        IN  IF hits = {} THEN w'.durations = w.durations
            ELSE /\ w'.durations =
                       [w.durations EXCEPT ![m] = sort(Append(@, NumberAfter(text, m, first)))]
                 /\ w'.lastLine[m].current = Num(NumberAfter(text, m, first)) ]_vars

C24_Witness ==
    /\ args.marker = aDotB
    /\ w.durations[aDotB] = <<6, 6>>
    /\ w.durations[ellapsed] = <<42, 42>>

\* C30: at most one abortListener is registered on the process, and it is
\* the one of the trial launch() is waiting for.
C30_ListenerOfRunningTrialOnly ==
    /\ Cardinality(w.sigintListeners) <= 1
    /\ \A t \in w.sigintListeners : w.pc = "race" /\ w.i = t

\* C28: with an append-timers file configured, no target is given a
\* --prof-duration-markers flag for a configured duration marker, and no
\* configured duration marker is looked for in a trial's output.
C28_TimersFileCollapsesMarkers ==
    profAppendTimers =>
        \A t \in Trials :
            /\ Range(w.codeArgs[t]) \subseteq {ellapsed}
            /\ w.nomatch[t] \subseteq {ellapsed}

\* C26: run() prints at most one [error] line, and when it has printed it
\* the process has been ended with exit(1), no summary has been printed,
\* and the trials started are those up to the one that failed, if any.
C26_FailureExitsWithOne ==
    /\ w.errors <= 1
    /\ (w.errors = 1) <=> (w.pc = "failed")
    /\ w.pc = "failed" =>
          /\ w.exit = "exit(1)"
          /\ w.summary = <<>>
          /\ w.started = [k \in 1..w.i |-> k]
    /\ \A t \in Trials : w.outcome[t] = "error" => w.pc = "failed" /\ w.i = t

C26_Witness ==
    /\ w.pc = "failed"
    /\ w.i = 2
    /\ w.timedOut[1]
    /\ w.outcome[2] = "error"
    /\ w.promise[2] = "rejected"

\* C25: in the web runtime launch() with a build that is no URL starts no
\* trial: no browser is launched and no line of a marker is printed.
C25_MalformedUrlStartsNothing ==
    (runtime = "Web" /\ ~parsesAsURL(options.build) /\ w.pc # "run") =>
        /\ w.pc \in {"start", "failed"}
        /\ w.started = <<>>
        /\ \A t \in Trials : w.browser[t] = "none" /\ w.parsed[t] = 0
        /\ \A m \in MarkerNames : w.lastLine[m] = NoLine

C25_Witness ==
    /\ runtime = "Web"
    /\ ~parsesAsURL(options.build)
    /\ w.pc = "failed"
    /\ w.exit = "exit(1)"
    /\ w.started = <<>>

\* C27: in the web runtime a --build value that is none of the quality
\* names is the build run() hands to launch().
C27_WebBuildUrlIsTarget ==
    (runtime = "Web" /\ cli.given /\ cli.build \notin Qualities /\ w.pc # "run") =>
        options.build = cli.build

\* C31: the signal of a trial is not aborted when the trial starts; a child
\* is sent kill() only in a step that aborts the signal of its own trial,
\* a browser is closed only by its own trial (its signal, or its console
\* handler), and a timeout aborts no signal but the one of its trial.
NewlyAborted(t) == ~w.aborted[t] /\ w'.aborted[t]

C31_SignalPerTrial ==
    [][ /\ w'.started # w.started => ~w'.aborted[w'.i]
        /\ \A j \in Trials :
              /\ (w.child[j] = "running" /\ w'.child[j] = "signalled") => NewlyAborted(j)
              /\ (w.browser[j] # "closed" /\ w'.browser[j] = "closed") =>
                    \/ w'.aborted[j]
                    \/ Len(w'.handlers[j]) < Len(w.handlers[j])
        /\ \A i \in Trials : (~w.timedOut[i] /\ w'.timedOut[i]) =>
              \A j \in Trials \ {i} :
                  /\ w'.aborted[j] = w.aborted[j]
                  /\ w'.child[j] = "signalled" => w.child[j] = "signalled"
                  /\ w'.browser[j] = "closed" => w.browser[j] = "closed" ]_vars

C31_Witness ==
    /\ w.pc = "race"
    /\ w.i = 2
    /\ w.timedOut[1] /\ w.aborted[1]
    /\ w.child[1] = "signalled"
    /\ w.child[2] = "running"
    /\ ~w.aborted[2]

\* C38: a trial whose strategy won the race has its timer cleared, a timer
\* that fired is the one of the trial it marked as timed out, the only
\* timer that can be pending is the one of the trial launch() waits for,
\* and none is pending once the summary is printed.
C38_TimerOfItsTrial ==
    /\ \A t \in Trials :
          /\ w.outcome[t] \in {"data", "nodata", "abort"} =>
                w.handle[t] = "cleared" /\ ~w.timedOut[t]
          /\ w.timedOut[t] <=> w.handle[t] = "fired"
          /\ w.handle[t] = "pending" => w.i = t /\ w.pc # "done"
    /\ w.pc = "done" => \A t \in 1..runs : w.handle[t] \in {"fired", "cleared"}

C38_Witness ==
    /\ w.pc = "done"
    /\ w.handle[1] = "cleared" /\ w.outcome[1] = "data"
    /\ w.handle[2] = "fired" /\ w.timedOut[2]
    /\ w.promise[2] = "pending"

\* C36 (as stated): a trial that has ended shows exactly one of timed out,
\* interrupted (the process exited), data parsed and 'no perf data found',
\* and logMarker was called for it once per entry of the marker list when
\* data was parsed, and not at all otherwise.
Ended(t) ==
    /\ \E k \in DOMAIN w.started : w.started[k] = t
    /\ w.i > t \/ w.pc \in {"done", "exited", "killed", "failed"}

EndedTimedOut(t) == w.timedOut[t]
EndedInterrupted(t) == w.pc \in {"exited", "killed"} /\ w.i = t
EndedParsed(t) == w.parsed[t] > 0
EndedNoData(t) == "no perf data found." \in w.warnings[t]
EndedFailed(t) == w.pc = "failed" /\ w.i = t

HowMany(bs) == Cardinality({ k \in DOMAIN bs : bs[k] })

ParsedOncePerMarker(t) ==
    w.parsed[t] = IF w.outcome[t] = "data" THEN Len(markers) ELSE 0

C36_OneOfFourOutcomes ==
    \A t \in Trials : Ended(t) =>
        /\ HowMany(<<EndedTimedOut(t), EndedInterrupted(t),
                     EndedParsed(t), EndedNoData(t)>>) = 1
        /\ ParsedOncePerMarker(t)

\* C36 (amended): the same with a fifth outcome, the fatal error of a
\* strategy promise that rejected.
C36_OneOfFiveOutcomes ==
    \A t \in Trials : Ended(t) =>
        /\ HowMany(<<EndedTimedOut(t), EndedInterrupted(t),
                     EndedParsed(t), EndedNoData(t), EndedFailed(t)>>) = 1
        /\ ParsedOncePerMarker(t)

C36_Witness ==
    /\ Len(markers) = 2
    /\ w.pc = "failed"
    /\ w.i = 2
    /\ w.promise[2] = "rejected"
    /\ EndedParsed(1) /\ w.parsed[1] = 2

\* C37: the returned duration is the sum of dur over the collected events
\* named V8.GCFinalizeMC or V8.GCScavenger, in microseconds, divided by
\* 1000 and rounded to the nearest integer; no other event adds to it.
RECURSIVE BlockingMicros(_)
BlockingMicros(data) ==
    IF data = <<>> THEN 0
    ELSE (IF Head(data).name \in {"V8.GCFinalizeMC", "V8.GCScavenger"}
          THEN Head(data).dur ELSE 0) + BlockingMicros(Tail(data))

Nearest(x) == CHOOSE r \in 0..(x \div 1000 + 1) : 1000 * r - 500 <= x /\ x < 1000 * r + 500

C37_BlockingDuration ==
    heap.pc = "returned" => heap.returned.duration = Nearest(BlockingMicros(heap.data))

C37_Witness ==
    /\ heap.pc = "returned"
    /\ heap.data = << Event("V8.GCScavenger", FALSE, Missing, Missing, 1500),
                      Event("MajorGC", FALSE, Missing, Missing, 2000) >>
    /\ heap.returned.duration = 2

\* C35: the tracingComplete listener is on when Tracing.end has been sent
\* and the completion has not arrived, so the completion is never lost;
\* the statistics loop runs only after the completion was received, over
\* every event collected.
C35_CompletionNotMissed ==
    /\ (heap.pc = "ending" /\ ~heap.completeEmitted) => heap.listening
    /\ heap.completeEmitted => heap.completeReceived
    /\ heap.pc \in {"usedBefore", "collectGarbage", "usedAfter", "returned"} =>
          /\ heap.completeReceived
          /\ heap.endAnswered
          /\ heap.reduced = heap.data

C35_Witness ==
    /\ heap.pc = "usedBefore"
    /\ heap.completeReceived
    /\ Len(heap.data) = 2
    /\ heap.reduced = heap.data
    /\ heap.majorGCs = 2

\* C32: a step that resolves the promise of a hosted trial is taken by a
\* console handler whose settle delay is over and whose heapTracing.stop()
\* was called; it asks the browser to close and appends the handler's line
\* to the log; so a resolved hosted trial has its line in the log and its
\* browser closed.
C32_ResolvesLast ==
    [][ runtime = "Web" =>
          \A t \in Trials :
              /\ (w.promise[t] = "pending" /\ w'.promise[t] = "resolved") =>
                    /\ \E k \in DOMAIN w.handlers[t] :
                          /\ w.handlers[t][k].stage = "stop"
                          /\ w'.handlers[t] = Remove(w.handlers[t], k)
                    /\ Len(w'.perfFile.lines) = Len(w.perfFile.lines) + 1
                    /\ w'.perfFile.lines[Len(w'.perfFile.lines)].by = t
              /\ w'.promise[t] = "resolved" =>
                    /\ w'.browser[t] = "closed"
                    /\ \E k \in DOMAIN w'.perfFile.lines : w'.perfFile.lines[k].by = t ]_vars

C32_Witness ==
    /\ runtime = "Web"
    /\ w.promise[1] = "resolved"
    /\ w.outcome[1] = "data"
    /\ w.browser[1] = "closed"
    /\ Len(w.perfFile.lines) = 1 /\ w.perfFile.lines[1].by = 1

\* C33: what a hosted session sends to the page and what its strategy
\* resolves with are those of every session with the same first marker.
MarkerLists ==
    { <<a>> : a \in MarkerNames } \cup { <<a, b>> : a, b \in MarkerNames }

C33_FirstMarkerOnly ==
    runtime = "Web" =>
        \A t \in Trials, ms \in MarkerLists :
            ms[1] = markers[1] =>
                /\ w.request[t] \in {<<>>, profDurationMarkers(durationMarker(ms))}
                /\ w.promise[t] = "resolved" =>
                      \E p \in PagePayloads :
                          w.output[t].text = durationMarker(ms) \o <<TAB>> \o p

C33_Witness ==
    /\ runtime = "Web"
    /\ markers = <<ab, aDotB>>
    /\ w.request[1] = <<"a", ",", "b">>
    /\ w.promise[1] = "resolved"
    /\ w.output[1].text = ab \o <<TAB, "1", "2">>

\* C34: without heap statistics asked for, a hosted trial starts no
\* tracing session and no line of the log carries GC statistics.
CarriesStatistics(line) ==
    \E p \in DOMAIN line.text :
        /\ p + Len(heapLabel) - 1 <= Len(line.text)
        /\ SubSeq(line.text, p, p + Len(heapLabel) - 1) = heapLabel

C34_TracingOnlyWhenEnabled ==
    (runtime = "Web" /\ ~options.profAppendHeapStatistics) =>
        /\ \A t \in Trials : w.stage[t] # "listening"
        /\ \A k \in DOMAIN w.perfFile.lines : ~CarriesStatistics(w.perfFile.lines[k])

====
